---------------------------- MODULE Spec2Model ----------------------------
(***************************************************************************)
(* Model of mrpt::nav::CPTG_Holo_Blend (libs/nav/src/tpspace/               *)
(* CPTG_Holo_Blend.cpp): the closed-form holonomic "velocity blend" PTG.    *)
(*                                                                         *)
(* A C++ double is modelled as a fixed-point number: the integer v stands  *)
(* for the real v / SCALE.  The IEEE-754 special values are kept: PInf,    *)
(* NInf and NaN, with the arithmetic and comparison rules of the standard  *)
(* (inf * 0 = NaN, inf - inf = NaN, every comparison with NaN is false).   *)
(***************************************************************************)
EXTENDS Integers, Sequences, FiniteSets, TLC

(***************************************************************************)
(* Fixed-point arithmetic                                                  *)
(***************************************************************************)
SCALE == 10^6
RADIX == 10^3            \* SCALE = RADIX * RADIX
PInf  == 2000 * SCALE    \* +infinity
NInf  == -PInf           \* -infinity
NaN   == NInf - 1        \* not-a-number
HALF    == SCALE \div 2
QUARTER == SCALE \div 4

IsNaN(a) == a = NaN
IsInf(a) == a = PInf \/ a = NInf
IsFinite(a) == ~IsNaN(a) /\ ~IsInf(a)

Abs(a) == IF a < 0 THEN -a ELSE a
Sgn(a) == IF a < 0 THEN -1 ELSE 1

\* round(a*b/SCALE) for a, b >= 0, within 32 bits
MulNat(a, b) ==
  LET ah == a \div RADIX
      al == a % RADIX
      bh == b \div RADIX
      bl == b % RADIX
  IN  ah * bh + ((ah * bl + al * bh) + ((al * bl + (HALF)) \div RADIX)) \div RADIX

\* round(r * 10^n / b) for 0 <= r < b, digit by digit
RECURSIVE DivDigits(_, _, _)
DivDigits(r, b, n) ==
  IF n = 0 THEN (IF 2 * r >= b THEN 1 ELSE 0)
  ELSE ((r * 10) \div b) * (10 ^ (n - 1)) + DivDigits((r * 10) % b, b, n - 1)

\* round(r * SCALE / b) for 0 <= r < b: three digits at a time while that
\* stays within 32 bits, one at a time otherwise; a divisor above 200 loses
\* its last binary digits first
DivFrac(r, b) ==
  IF b <= 2000000
  THEN LET r1 == (r * RADIX) % b
           r2 == (r1 * RADIX) % b
       IN  ((r * RADIX) \div b) * RADIX + (r1 * RADIX) \div b
           + (IF 2 * r2 >= b THEN 1 ELSE 0)
  ELSE IF b <= 200 * SCALE THEN DivDigits(r, b, 6)
  ELSE DivDigits(r \div 16, b \div 16, 6)

\* double * double
FMul(a, b) ==
  IF IsNaN(a) \/ IsNaN(b) THEN NaN
  ELSE IF IsInf(a) \/ IsInf(b)
       THEN (IF a = 0 \/ b = 0 THEN NaN ELSE Sgn(a) * Sgn(b) * PInf)
  ELSE Sgn(a) * Sgn(b) * MulNat(Abs(a), Abs(b))

\* double / double
FDiv(a, b) ==
  IF IsNaN(a) \/ IsNaN(b) THEN NaN
  ELSE IF IsInf(a) THEN (IF IsInf(b) THEN NaN ELSE Sgn(a) * Sgn(b) * PInf)
  ELSE IF IsInf(b) THEN 0
  ELSE IF b = 0 THEN (IF a = 0 THEN NaN ELSE Sgn(a) * PInf)
  ELSE LET n == Abs(a)
           d == Abs(b)
       IN  Sgn(a) * Sgn(b) * ((n \div d) * SCALE + DivFrac(n % d, d))

FAdd(a, b) ==
  IF IsNaN(a) \/ IsNaN(b) THEN NaN
  ELSE IF IsInf(a) THEN (IF IsInf(b) /\ a # b THEN NaN ELSE a)
  ELSE IF IsInf(b) THEN b
  ELSE a + b

FNeg(a)    == IF IsNaN(a) THEN NaN ELSE -a
FSub(a, b) == FAdd(a, FNeg(b))
FAbs(a)    == IF IsNaN(a) THEN NaN ELSE Abs(a)

\* comparisons: false as soon as one side is NaN
FLt(a, b) == ~IsNaN(a) /\ ~IsNaN(b) /\ a < b
FLe(a, b) == ~IsNaN(a) /\ ~IsNaN(b) /\ a <= b
FGt(a, b) == FLt(b, a)
FGe(a, b) == FLe(b, a)

\* floor(sqrt(n)) of a natural number by bisection: lo^2 <= n < hi^2
RECURSIVE ISqrt(_, _, _)
ISqrt(n, lo, hi) ==
  IF hi - lo <= 1 THEN lo
  ELSE LET mid == (lo + hi) \div 2
       IN  IF mid * mid <= n THEN ISqrt(n, mid, hi) ELSE ISqrt(n, lo, mid)

\* Newton steps x <- (x + a/x) / 2, until x and a/x meet
RECURSIVE SqrtNewton(_, _, _)
SqrtStep(a, x, q, n) ==
  IF n = 0 \/ Abs(q - x) <= 2 THEN (x + q) \div 2
  ELSE SqrtNewton(a, (x + q) \div 2, n - 1)
SqrtNewton(a, x, n) == SqrtStep(a, x, FDiv(a, x), n)

\* sqrt(double): NaN below zero; exact on perfect squares
FSqrt(a) ==
  IF IsNaN(a) THEN NaN
  ELSE IF a = PInf THEN PInf
  ELSE IF a < 0 THEN NaN
  ELSE IF a = 0 THEN 0
  ELSE SqrtNewton(a, ISqrt(a, 1, IF a < 46340 THEN a + 1 ELSE 46341) * RADIX, 8)

\* sqrt(x*x+y*y); the squares of two coordinates below 0.03 are summed in
\* units of 1e-12, where they do not vanish
Hypot(x, y) ==
  IF Abs(x) < 30000 /\ Abs(y) < 30000
  THEN (IF x = 0 /\ y = 0 THEN 0 ELSE ISqrt(x * x + y * y, 1, 46341))
  ELSE FSqrt(FMul(x, x) + FMul(y, y))

\* round(a / n) to nearest, n a positive integer
RDiv(a, n) == Sgn(a) * ((2 * Abs(a) + n) \div (2 * n))

\* 2 * atanh(z) = 2 * (z + z^3/3 + z^5/5 + ...), |z| <= 1/3
RECURSIVE AtanhSeries(_, _, _, _)
AtanhSeries(zpow, z2, i, n) ==
  IF i > n THEN 0
  ELSE RDiv(zpow, 2 * i + 1) + AtanhSeries(FMul(zpow, z2), z2, i + 1, n)

\* log of a mantissa m in [0.75, 1.5)
LogAtanh(z) == 2 * AtanhSeries(z, FMul(z, z), 0, 7)
LogMant(m) == LogAtanh(FDiv(m - SCALE, m + SCALE))

LN2 == LogMant(2 * SCALE)   \* log(2) = 2 * atanh(1/3)

RECURSIVE LogReduce(_, _)
LogReduce(m, e) ==
  IF 2 * m >= 3 * SCALE THEN LogReduce(m \div 2, e + 1)
  ELSE IF 4 * m < 3 * SCALE THEN LogReduce(2 * m, e - 1)
  ELSE e * LN2 + LogMant(m)

\* log(double): -inf at 0, NaN below
FLog(a) ==
  IF IsNaN(a) THEN NaN
  ELSE IF a = PInf THEN PInf
  ELSE IF a < 0 THEN NaN
  ELSE IF a = 0 THEN NInf
  ELSE LogReduce(a, 0)

M_PI == 3141593  \* pi

\* Horner form of the Taylor series: 1 - x2/(d(d+1)) * (1 - x2/((d+2)(d+3)) * ...)
RECURSIVE TrigHorner(_, _, _)
TrigHorner(x2, d, last) ==
  IF d > last THEN SCALE
  ELSE SCALE - RDiv(FMul(x2, TrigHorner(x2, d + 2, last)), d * (d + 1))

CosSmall(x) == TrigHorner(FMul(x, x), 1, 11)            \* |x| <= pi/4
SinSmall(x) == FMul(x, TrigHorner(FMul(x, x), 2, 12))   \* |x| <= pi/4

\* cos(double), for -pi <= x <= pi
FCos(x) ==
  LET ax == Abs(x)
  IN  IF 4 * ax <= M_PI THEN CosSmall(ax)
      ELSE IF 4 * ax <= 3 * M_PI THEN SinSmall(M_PI \div 2 - ax)
      ELSE -CosSmall(M_PI - ax)

\* sin(double), for -pi <= x <= pi
FSin(x) ==
  LET ax == Abs(x)
  IN  Sgn(x) * (IF 4 * ax <= M_PI THEN SinSmall(ax)
                ELSE IF 4 * ax <= 3 * M_PI THEN CosSmall(M_PI \div 2 - ax)
                ELSE SinSmall(M_PI - ax))

(***************************************************************************)
(* The object: kinematic configuration and current velocity                *)
(***************************************************************************)
VARIABLES
  T_ramp,             \* double
  V_MAX,              \* double
  W_MAX,              \* double
  m_alphaValuesCount, \* uint16_t, of the base class
  refDistance,        \* double, of the base class
  curVelLocal,        \* [vx, vy]
  last                \* the call that has just returned, or [op |-> "none"]

vars == <<T_ramp, V_MAX, W_MAX, m_alphaValuesCount, refDistance, curVelLocal, last>>

cfgVars == <<T_ramp, V_MAX, W_MAX, m_alphaValuesCount, refDistance>>

PATH_TIME_STEP == 10000   \* 10e-3
eps == 10                 \* 1e-5

vxi == curVelLocal.vx
vyi == curVelLocal.vy

\* the ramp coefficient without the factor 2
TR2_Mutant == FDiv(SCALE, T_ramp)

TR2_ == FDiv(SCALE, 2 * T_ramp)         \* 1.0 / (2*T_ramp)

\* the base class's index2alpha(k), an angle in (-pi, pi]:
\* M_PI * (-1.0 + 2.0 * (k + 0.5) / m_alphaValuesCount),
\* and its cosine and sine, for each number of directions a
\* configuration of the model can hold (computed once)
index2alpha(n, k) == FMul(M_PI, FDiv((2 * k + 1) * SCALE, n * SCALE) - SCALE)
AlphaCounts == {0, 1, 16}
DirTable ==
  [n \in AlphaCounts |->
     [k \in 0..(n - 1) |->
        [dir |-> index2alpha(n, k), cos |-> FCos(index2alpha(n, k)), sin |-> FSin(index2alpha(n, k))]]]

\* the locals every query computes first for its direction k:
\* dir, (vxf, vyf) = V_MAX * (cos dir, sin dir), k2, k4
PathLocals(dir, vxf, vyf) ==
  [dir |-> dir, vxf |-> vxf, vyf |-> vyf,
   k2 |-> FMul(vxf - vxi, TR2_), k4 |-> FMul(vyf - vyi, TR2_)]

\* the locals with a final velocity of twice V_MAX
PathOfMutant(d) == PathLocals(d.dir, FMul(2 * V_MAX, d.cos), FMul(2 * V_MAX, d.sin))

PathOf(d) == PathLocals(d.dir, FMul(V_MAX, d.cos), FMul(V_MAX, d.sin))
Path(k) == PathOf(DirTable[m_alphaValuesCount][k])

(***************************************************************************)
(* Translational distance integrator                                       *)
(***************************************************************************)
\* sqrt(c + b*t + a*(t*t))
Speed(t, a, b, c) == FSqrt(FAdd(FAdd(c, FMul(b, t)), FMul(a, FMul(t, t))))

\* the argument of the logarithm of the indefinite integral at t
LogArg_t(t, a, b, c) ==
  FAdd(FMul(FDiv(SCALE, FSqrt(a)), FAdd(FMul(b, HALF), FMul(a, t))), Speed(t, a, b, c))

\* the argument of the logarithm of the limit at t -> 0
LogArg_0(a, b, c) ==
  FMul(FMul(FDiv(SCALE, FSqrt(a)),
            FAdd(b, FMul(FMul(FSqrt(a), FSqrt(c)), 2 * SCALE))),
       HALF)

\* a*c - (b*b)*(1/4)
LogCoef(a, b, c) == FSub(FMul(a, c), FMul(FMul(b, b), QUARTER))

\* the definite integral [0, t] of sqrt(a*t^2 + b*t + c)
\* with inv_pow32 = 1.0/pow(a,3.0/2.0) and coef = a*c-(b*b)*(1.0/4.0)
IntegralFrom0(t, a, b, c, inv_pow32, coef) ==
  LET int_t ==
        FAdd(FMul(FAdd(FMul(t, HALF), FDiv(FMul(b, QUARTER), a)), Speed(t, a, b, c)),
             FMul(FMul(FMul(inv_pow32, FLog(LogArg_t(t, a, b, c))), coef), HALF))
      int_t0 ==
        FAdd(FDiv(FMul(FMul(b, FSqrt(c)), QUARTER), a),
             FMul(FMul(FMul(inv_pow32, FLog(LogArg_0(a, b, c))), coef), HALF))
  IN  FSub(int_t, int_t0)
calc_trans_distance_t_below_Tramp_abc(t, a, b, c) ==
  IntegralFrom0(t, a, b, c, FDiv(SCALE, FMul(a, FSqrt(a))), LogCoef(a, b, c))

\* which of the three regimes the integrator takes

\* the coefficients of the squared speed a*t^2 + b*t + c on the ramp
CoefA(kk2, kk4) == FMul(FMul(kk2, kk2), 4 * SCALE) + FMul(FMul(kk4, kk4), 4 * SCALE)
CoefB(kk2, kk4, vx, vy) == FMul(FMul(kk2, vx), 4 * SCALE) + FMul(FMul(kk4, vy), 4 * SCALE)
CoefC(vx, vy) == FMul(vx, vx) + FMul(vy, vy)

DistanceByRegime(kk2, kk4, t, a, b, c) ==
  IF Abs(kk2) > eps \/ Abs(kk4) > eps
  THEN IF Abs(b) < eps /\ Abs(c) < eps
       THEN FMul(FMul(FSqrt(a), FMul(t, t)), HALF)
       ELSE calc_trans_distance_t_below_Tramp_abc(t, a, b, c)
  ELSE FMul(FSqrt(c), t)
calc_trans_distance_t_below_Tramp(kk2, kk4, vx, vy, t) ==
  DistanceByRegime(kk2, kk4, t, CoefA(kk2, kk4), CoefB(kk2, kk4, vx, vy), CoefC(vx, vy))

(***************************************************************************)
(* Forward path evaluator                                                  *)
(***************************************************************************)
StepTime(step) == PATH_TIME_STEP * step    \* PATH_TIME_STEP*step

\* the two branches of the translational part, one axis
RampPos(vi, vf, t) == FMul(vi, t) + FMul(FMul(FMul(t, t), TR2_), vf - vi)
CoastPos(vi, vf, t) == FMul(FMul(T_ramp, HALF), vi + vf) + FMul(t - T_ramp, vf)

\* the rotational part without the test t < T_rot
HeadingOfMutant(dir, t, T_rot) == FDiv(FMul(t, dir), T_rot)

\* the rotational part
HeadingOf(dir, t, T_rot) == IF FLt(t, T_rot) THEN FDiv(FMul(t, dir), T_rot) ELSE dir
Heading(dir, t) == HeadingOf(dir, t, FDiv(Abs(dir), W_MAX))

PoseAtTime(pk, t) ==
  [x |-> IF t < T_ramp THEN RampPos(vxi, pk.vxf, t) ELSE CoastPos(vxi, pk.vxf, t),
   y |-> IF t < T_ramp THEN RampPos(vyi, pk.vyf, t) ELSE CoastPos(vyi, pk.vyf, t),
   phi |-> Heading(pk.dir, t)]
getPathPose(k, step) == PoseAtTime(Path(k), StepTime(step))

\* the travelled distance at time t of the path pk: both branches
DistAtTime(pk, t) ==
  IF t < T_ramp
  THEN calc_trans_distance_t_below_Tramp(pk.k2, pk.k4, vxi, vyi, t)
  ELSE FAdd(FMul(t - T_ramp, V_MAX),
            calc_trans_distance_t_below_Tramp(pk.k2, pk.k4, vxi, vyi, T_ramp))

getPathDist(k, step) == DistAtTime(Path(k), StepTime(step))

(***************************************************************************)
(* Distance-to-step inverter                                               *)
(***************************************************************************)
\* mrpt::utils::round(t_solved / PATH_TIME_STEP) for t_solved >= 0, an int
\* (the quotient is taken in integers: it passes the range of the
\* fixed-point numbers after 20 s), then the conversion to the uint16_t
\* output
RoundedStep(t) == (t + PATH_TIME_STEP \div 2) \div PATH_TIME_STEP
ToUint16(n) == n % 65536

NEWTON_TOL == 1000   \* 1e-3
NEWTON_ITERS == 10

\* the Newton loop from t_solved = t with iters passes done: [t, threw],
\* threw when ASSERT_(std::abs(diff)>1e-14) fails
RECURSIVE NewtonLoop(_, _, _, _, _, _)
NewtonPass(t, iters, a, b, c, dist, err, diff) ==
  IF FLt(FAbs(err), NEWTON_TOL) THEN [t |-> t, threw |-> FALSE]
  ELSE IF ~FGt(FAbs(diff), 0) THEN [t |-> t, threw |-> TRUE]
  ELSE NewtonLoop(FSub(t, FDiv(err, diff)), iters + 1, a, b, c, dist)
NewtonLoop(t, iters, a, b, c, dist) ==
  IF iters >= NEWTON_ITERS THEN [t |-> t, threw |-> FALSE]
  ELSE NewtonPass(t, iters, a, b, c, dist,
                  FSub(calc_trans_distance_t_below_Tramp_abc(t, a, b, c), dist),
                  FSqrt(FAdd(FAdd(FMul(FMul(a, t), t), FMul(b, t)), c)))

NewtonResult(n) == [t |-> n.t, threw |-> n.threw, branch |-> "newton"]

\* t_solved of getPathStepForDist: [t, threw, branch]
SolveByBranch(pk, dist, dist_trans_T_ramp, a, b, c) ==
  IF FGe(dist, dist_trans_T_ramp)
  THEN [t |-> FAdd(T_ramp, FDiv(FSub(dist, dist_trans_T_ramp), V_MAX)),
        threw |-> FALSE, branch |-> "coast"]
  ELSE IF Abs(pk.k2) < eps /\ Abs(pk.k4) < eps
  THEN [t |-> FDiv(dist, V_MAX), threw |-> FALSE, branch |-> "constant"]
  ELSE IF Abs(b) < eps /\ Abs(c) < eps
  THEN [t |-> FMul(FDiv(FMul(FSqrt(2 * SCALE), SCALE), FSqrt(FSqrt(a))),
                   FSqrt(dist)),
        threw |-> FALSE, branch |-> "rest"]
  ELSE NewtonResult(NewtonLoop(FMul(T_ramp, 600000), 0, a, b, c, dist))
SolvePath(pk, dist) ==
  SolveByBranch(pk, dist,
                calc_trans_distance_t_below_Tramp(pk.k2, pk.k4, vxi, vyi, T_ramp),
                CoefA(pk.k2, pk.k4), CoefB(pk.k2, pk.k4, vxi, vyi), CoefC(vxi, vyi))
SolveTimeForDist(k, dist) == SolvePath(Path(k), dist)

Unset == NaN - 1    \* an output parameter the callee has not written

\* the end of getPathStepForDist, from t_solved: [ok, threw, out_step, t, branch]
StepOfTime(r) ==
  IF r.threw
  THEN [ok |-> FALSE, threw |-> TRUE, out_step |-> Unset, t |-> r.t, branch |-> r.branch]
  ELSE IF FGe(r.t, 0)
  THEN [ok |-> TRUE, threw |-> FALSE,
        out_step |-> ToUint16(RoundedStep(r.t)),
        t |-> r.t, branch |-> r.branch]
  ELSE [ok |-> FALSE, threw |-> FALSE, out_step |-> Unset, t |-> r.t, branch |-> r.branch]
getPathStepForDist(k, dist) == StepOfTime(SolveTimeForDist(k, dist))

\* [threw, step]
StepCountOf(r) ==
  IF r.ok THEN [threw |-> FALSE, step |-> r.out_step]
  ELSE [threw |-> TRUE, step |-> Unset]
getPathStepCount(k) == StepCountOf(getPathStepForDist(k, refDistance))

(***************************************************************************)
(* Inverse workspace mapper                                                *)
(***************************************************************************)
DBL_MAX == PInf - 1   \* std::numeric_limits<double>::max()

\* 2*M_PI/m_alphaValuesCount * sqrt(x*x+y*y)
AngularReach(x, y) ==
  FMul(FDiv(2 * M_PI, m_alphaValuesCount * SCALE), Hypot(x, y))

TIME_MISMATCH_TOLERANCE(x, y) == FDiv(FMul(2 * SCALE, AngularReach(x, y)), V_MAX)
eps_distance(x, y) == FMul(2100000, AngularReach(x, y))

Rejected == [accept |-> FALSE, dist |-> Unset, t |-> Unset, coast |-> FALSE]

\* One axis, attempt for t < T_ramp: [any, solve, skip]; skip is the
\* "continue" on a negative discriminant.  solve is not written when any is
\* set (it is never read then).
RampRoot(ts) ==
  IF IsFinite(ts) /\ ts >= 0 /\ ts <= T_ramp
  THEN [any |-> FALSE, solve |-> ts, skip |-> FALSE]
  ELSE [any |-> FALSE, solve |-> -SCALE, skip |-> FALSE]
RampRoots(t0, t1) == RampRoot(IF t0 > 0 THEN t0 ELSE t1)
\* tx_solved[0], tx_solved[1]
RampRoot0(vi, vf, sqr) == FNeg(FDiv(FMul(T_ramp, vi + sqr), vf - vi))
RampRoot1(vi, vf, sqr) == FNeg(FDiv(FMul(T_ramp, vi - sqr), vf - vi))
RampSolve(vi, vf, sqr) == RampRoots(RampRoot0(vi, vf, sqr), RampRoot1(vi, vf, sqr))
RampDiscr(vi, vf, discr) ==
  IF discr < 0 THEN [any |-> FALSE, solve |-> Unset, skip |-> TRUE]
  ELSE RampSolve(vi, vf, FSqrt(discr))
\* discr_x
discr(p, vi, vf) ==
  FDiv(FMul(FMul(vf, p), 2 * SCALE) - FMul(FMul(vi, p), 2 * SCALE)
         + FMul(T_ramp, FMul(vi, vi)),
       T_ramp)
RampAxis(p, vi, vf, epsd) ==
  IF Abs(vf - vi) < eps
  THEN IF Abs(vi) < eps
       THEN (IF Abs(p) < epsd
             THEN [any |-> TRUE, solve |-> Unset, skip |-> FALSE]
             ELSE [any |-> FALSE, solve |-> -SCALE, skip |-> FALSE])
       ELSE [any |-> FALSE, solve |-> FDiv(p, vi), skip |-> FALSE]
  ELSE RampDiscr(vi, vf, discr(p, vi, vf))

\* One axis, attempt for t > T_ramp, entered with the flag and the time of
\* the first attempt: [any, solve]
CoastAxis(p, vi, vf, epsd, prev) ==
  IF Abs(vf) < eps
  THEN LET final == FMul(vi, T_ramp) + FMul(FMul(FMul(T_ramp, T_ramp), TR2_), vf - vi)
       IN  IF Abs(p - final) < epsd
           THEN [any |-> TRUE, solve |-> prev.solve]
           ELSE [any |-> prev.any, solve |-> -SCALE]
  ELSE [any |-> prev.any,
        solve |-> FDiv(p - FMul(FMul(T_ramp, vi + vf), HALF), vf)]

InRamp(r) == r.any \/ (r.solve >= 0 /\ r.solve <= T_ramp)

\* "Good solution: save if better", for the final t_solve
SaveIfGood(pk, t_solve, coast) ==
  IF t_solve >= 0
  THEN [accept |-> TRUE, dist |-> DistAtTime(pk, t_solve), t |-> t_solve,
        coast |-> coast]
  ELSE [accept |-> FALSE, dist |-> Unset, t |-> t_solve, coast |-> coast]

\* "Get the final solution", from the two axes' flags and times
FinalSolution(pk, x, y, tol, tx, ty, coast) ==
  IF ~tx.any /\ ~ty.any /\ Abs(tx.solve - ty.solve) > tol THEN Rejected
  ELSE SaveIfGood(pk,
                  IF tx.any /\ ty.any
                  THEN FDiv(Hypot(x, y), V_MAX)
                  ELSE IF tx.any THEN ty.solve
                  ELSE tx.solve,
                  coast)

\* after the attempt for t < T_ramp on both axes
AfterRamp(pk, x, y, epsd, tol, rx, ry) ==
  IF rx.skip \/ ry.skip THEN Rejected
  ELSE IF InRamp(rx) /\ InRamp(ry)
  THEN FinalSolution(pk, x, y, tol, rx, ry, FALSE)
  ELSE FinalSolution(pk, x, y, tol,
                     CoastAxis(x, vxi, pk.vxf, epsd, rx),
                     CoastAxis(y, vyi, pk.vyf, epsd, ry), TRUE)

\* The body of the loop for one k: [accept, dist, t, coast]
\*   accept: the direction reached "Good solution: save if better"
\*   coast:  the times come from the attempt for t > T_ramp
ScanPath(pk, x, y, epsd, tol) ==
  AfterRamp(pk, x, y, epsd, tol,
            RampAxis(x, vxi, pk.vxf, epsd), RampAxis(y, vyi, pk.vyf, epsd))
ScanDirection(k, x, y, epsd, tol) == ScanPath(Path(k), x, y, epsd, tol)

\* for (k = from; k < m_alphaValuesCount; k++), keeping the shortest path
RECURSIVE ScanFrom(_, _, _, _, _, _, _)
KeepShortest(k, x, y, epsd, tol, found_min_dist, found_k, r) ==
  IF r.accept /\ FLt(r.dist, found_min_dist)
  THEN ScanFrom(k + 1, x, y, epsd, tol, r.dist, k)
  ELSE ScanFrom(k + 1, x, y, epsd, tol, found_min_dist, found_k)
ScanFrom(k, x, y, epsd, tol, found_min_dist, found_k) ==
  IF k >= m_alphaValuesCount
  THEN [found_min_dist |-> found_min_dist, found_k |-> found_k]
  ELSE KeepShortest(k, x, y, epsd, tol, found_min_dist, found_k,
                    ScanDirection(k, x, y, epsd, tol))

\* the end of inverseMap_WS2TP: [threw, ok, out_k, out_d]
ScanResult(f) ==
  IF f.found_k >= 0
  THEN [threw |-> FALSE, ok |-> TRUE, out_k |-> f.found_k,
        out_d |-> FDiv(f.found_min_dist, refDistance)]
  ELSE [threw |-> FALSE, ok |-> FALSE, out_k |-> Unset, out_d |-> Unset]

\* inverseMap_WS2TP without its ASSERT_(x!=0 || y!=0)
inverseMap_WS2TPMutant(x, y) ==
  ScanResult(ScanFrom(0, x, y, eps_distance(x, y), TIME_MISMATCH_TOLERANCE(x, y),
                      DBL_MAX, -1))

inverseMap_WS2TP(x, y) ==
  IF x = 0 /\ y = 0
  THEN [threw |-> TRUE, ok |-> FALSE, out_k |-> Unset, out_d |-> Unset]
  ELSE ScanResult(ScanFrom(0, x, y, eps_distance(x, y), TIME_MISMATCH_TOLERANCE(x, y),
                           DBL_MAX, -1))

PTG_IsIntoDomain(x, y) == inverseMap_WS2TP(x, y)

(***************************************************************************)
(* Inputs of the model                                                     *)
(***************************************************************************)
MaxVelIdx  == 1     \* current velocities: multiples of 1 m/s up to this index
MaxStepIdx == 5     \* steps: multiples of STEP_STRIDE up to this index
MaxDistIdx == 4     \* target distances: multiples of 0.25 m up to this index
MaxTgtIdx  == 4     \* target points: multiples of 0.25 m up to this index

STEP_STRIDE == 25 * 1

Velocities == {[vx |-> i * SCALE, vy |-> j * SCALE] : i, j \in -MaxVelIdx..MaxVelIdx}
\* steps a quarter of a second apart: from the first one on the positions are
\* centimetres, four digits above the resolution of the arithmetic
Steps == {i * STEP_STRIDE : i \in 0..MaxStepIdx}
\* target distances: up to a metre, and one beyond 655.35 s of travel
FAR_DIST == 700 * SCALE
Dists == {i * QUARTER : i \in 0..MaxDistIdx} \cup {FAR_DIST}
Targets == {[x |-> i * QUARTER, y |-> j * QUARTER] : i, j \in -MaxTgtIdx..MaxTgtIdx}
AxisTargets == {tgt \in Targets : tgt.x = 0 \/ tgt.y = 0}

\* target distances half a millimetre short of the distance at the end of
\* the ramp of path k
RampEndDists(k) ==
  LET d == DistAtTime(Path(k), T_ramp)
  IN  IF IsFinite(d) /\ d >= HALF \div RADIX THEN {d - HALF \div RADIX} ELSE {}

\* configuration files: T_ramp [s], v_max_mps, w_max_dps [deg/s], the base
\* class's number of directions and reference distance
Cfg(T, v, w, n, ref) ==
  [T_ramp |-> T, v_max_mps |-> v, w_max_dps |-> w, alphaValuesCount |-> n,
   refDistance |-> ref]

ConfigFiles ==
  { Cfg(SCALE, SCALE, 180 * SCALE, 16, 2 * SCALE),
    Cfg(HALF, SCALE, 90 * SCALE, 1, SCALE),
    Cfg(-SCALE, SCALE, 90 * SCALE, 1, SCALE),
    Cfg(HALF, -SCALE, 90 * SCALE, 1, SCALE),
    Cfg(HALF, SCALE, 0, 1, SCALE),
    Cfg(HALF, SCALE, 90 * SCALE, 0, SCALE) }

DEG2RAD(deg) == FDiv(FMul(deg, M_PI), 180 * SCALE)

Idle == [op |-> "none"]

(***************************************************************************)
(* Operations                                                              *)
(***************************************************************************)
\* CPTG_Holo_Blend(): the default constructor
Init ==
  /\ T_ramp = -SCALE
  /\ V_MAX = -SCALE
  /\ W_MAX = -SCALE
  /\ m_alphaValuesCount = 0
  /\ refDistance = 0
  /\ curVelLocal = [vx |-> 0, vy |-> 0]
  /\ last = Idle

\* loadFromConfigFile (also the body of the constructor from a file)
LoadFromConfigFile(cfg) ==
  /\ last = Idle
  /\ T_ramp' = cfg.T_ramp
  /\ V_MAX' = cfg.v_max_mps
  /\ W_MAX' = DEG2RAD(cfg.w_max_dps)
  /\ m_alphaValuesCount' = cfg.alphaValuesCount
  /\ refDistance' = cfg.refDistance
  /\ UNCHANGED <<curVelLocal, last>>

\* the first of initialize's four ASSERT_s that fails, in their order
FailedAssert ==
  IF ~(T_ramp > 0) THEN "T_ramp>0"
  ELSE IF ~(V_MAX > 0) THEN "V_MAX>0"
  ELSE IF ~(W_MAX > 0) THEN "W_MAX>0"
  ELSE IF ~(m_alphaValuesCount > 0) THEN "m_alphaValuesCount>0"
  ELSE "none"

\* initialize without its third check
InitializeMutant ==
  /\ last = Idle
  /\ last' = [op |-> "initialize",
              threw |-> FailedAssert \notin {"none", "W_MAX>0"},
              before |-> cfgVars]
  /\ UNCHANGED <<cfgVars, curVelLocal>>

\* initialize: the four ASSERT_s, nothing else; a failed ASSERT_ throws
Initialize ==
  /\ last = Idle
  /\ last' = [op |-> "initialize", threw |-> FailedAssert # "none", before |-> cfgVars]
  /\ UNCHANGED <<cfgVars, curVelLocal>>

updateCurrentRobotVel(v) ==
  /\ last = Idle
  /\ curVelLocal' = v
  /\ UNCHANGED <<cfgVars, last>>

GetPathPose(k, step) ==
  /\ last = Idle
  /\ last' = [op |-> "getPathPose", k |-> k, step |-> step, p |-> getPathPose(k, step)]
  /\ UNCHANGED <<cfgVars, curVelLocal>>

GetPathDist(k, step) ==
  /\ last = Idle
  /\ last' = [op |-> "getPathDist", k |-> k, step |-> step, dist |-> getPathDist(k, step)]
  /\ UNCHANGED <<cfgVars, curVelLocal>>

GetPathStepForDist(k, dist) ==
  /\ last = Idle
  /\ last' = [op |-> "getPathStepForDist", k |-> k, dist |-> dist,
              r |-> getPathStepForDist(k, dist)]
  /\ UNCHANGED <<cfgVars, curVelLocal>>

GetPathStepCount(k) ==
  /\ last = Idle
  /\ last' = [op |-> "getPathStepCount", k |-> k, r |-> getPathStepCount(k)]
  /\ UNCHANGED <<cfgVars, curVelLocal>>

InverseMap_WS2TP(tgt) ==
  /\ last = Idle
  /\ last' = [op |-> "inverseMap_WS2TP", x |-> tgt.x, y |-> tgt.y,
              r |-> inverseMap_WS2TP(tgt.x, tgt.y)]
  /\ UNCHANGED <<cfgVars, curVelLocal>>

IsIntoDomain(tgt) ==
  /\ last = Idle
  /\ last' = [op |-> "PTG_IsIntoDomain", x |-> tgt.x, y |-> tgt.y,
              r |-> PTG_IsIntoDomain(tgt.x, tgt.y)]
  /\ UNCHANGED <<cfgVars, curVelLocal>>

\* the caller takes the result of the call that returned
Return ==
  /\ last # Idle
  /\ last' = Idle
  /\ UNCHANGED <<cfgVars, curVelLocal>>

Directions == 0..(m_alphaValuesCount - 1)

Next ==
  \/ \E cfg \in ConfigFiles : LoadFromConfigFile(cfg)
  \/ Initialize
  \/ \E v \in Velocities : updateCurrentRobotVel(v)
  \/ \E k \in Directions, step \in Steps : GetPathPose(k, step)
  \/ \E k \in Directions, step \in Steps : GetPathDist(k, step)
  \/ \E k \in Directions, dist \in Dists : GetPathStepForDist(k, dist)
  \/ last = Idle /\ \E k \in Directions : \E dist \in RampEndDists(k) : GetPathStepForDist(k, dist)
  \/ \E k \in Directions : GetPathStepCount(k)
  \/ \E tgt \in Targets : InverseMap_WS2TP(tgt)
  \/ \E tgt \in AxisTargets : IsIntoDomain(tgt)
  \/ Return

Spec == Init /\ [][Next]_vars

(***************************************************************************)
(* Properties                                                              *)
(***************************************************************************)
\* what initialize demands of the configuration
ValidConfig == T_ramp > 0 /\ V_MAX > 0 /\ W_MAX > 0 /\ m_alphaValuesCount > 0

Called(op) == last.op = op

\* the distance between the target (x, y) and the position of the pose p
PositionError(x, y, p) == Hypot(p.x - x, p.y - y)

\* C1: round trip inverse -> forward.  When inverseMap_WS2TP returns true
\* with (k, d) for a non-origin target, getPathStepForDist(k, d*refDistance)
\* succeeds and the position of getPathPose at its step is within
\* 2.1 * (2*pi/m_alphaValuesCount) * |(x,y)| plus V_MAX * 10 ms of the target.
C1_RoundTrip ==
  (Called("inverseMap_WS2TP") /\ ValidConfig /\ last.r.ok) =>
     LET s == getPathStepForDist(last.r.out_k, FMul(last.r.out_d, refDistance))
     IN  /\ s.ok
         /\ FLe(PositionError(last.x, last.y, getPathPose(last.r.out_k, s.out_step)),
                FAdd(eps_distance(last.x, last.y), FMul(V_MAX, PATH_TIME_STEP)))

\* C2: completeness of the inverse map.  The position of getPathPose(k, step)
\* with step >= 1, when it is not the origin, is a target for which
\* inverseMap_WS2TP returns true.
C2_InverseComplete ==
  (Called("getPathPose") /\ ValidConfig /\ last.step >= 1
     /\ ~(last.p.x = 0 /\ last.p.y = 0)) =>
     inverseMap_WS2TP(last.p.x, last.p.y).ok

\* C3: monotonic distance.  getPathDist(k, step) <= getPathDist(k, step + 1),
\* and from t = T_ramp on one more step adds exactly V_MAX * 10 ms.
C3_MonotonicDistance ==
  (Called("getPathDist") /\ ValidConfig) =>
     /\ FLe(last.dist, getPathDist(last.k, last.step + 1))
     /\ StepTime(last.step) >= T_ramp =>
           FSub(getPathDist(last.k, last.step + 1), last.dist) = FMul(V_MAX, PATH_TIME_STEP)

\* C4: ramp continuity.  At the step whose time is T_ramp getPathPose
\* returns the after-ramp formula; on both axes the ramp formula at T_ramp
\* gives the same position (to one unit in the last place), the ramp
\* formula's slope at T_ramp is the coasting velocity (its central
\* difference over one time step each side is 2*step*vf) and so is the
\* slope of the next step (to the rounding of the products).
AxisContinuous(vi, vf, here, next) ==
  /\ here = CoastPos(vi, vf, T_ramp)
  /\ Abs(RampPos(vi, vf, T_ramp) - here) <= 1
  /\ Abs(RampPos(vi, vf, T_ramp + PATH_TIME_STEP)
           - RampPos(vi, vf, T_ramp - PATH_TIME_STEP)
           - 2 * FMul(vf, PATH_TIME_STEP)) <= 3
  /\ Abs(next - here - FMul(vf, PATH_TIME_STEP)) <= 2
C4_RampContinuity ==
  (Called("getPathPose") /\ ValidConfig /\ StepTime(last.step) = T_ramp) =>
     /\ AxisContinuous(vxi, Path(last.k).vxf, last.p.x,
                       getPathPose(last.k, last.step + 1).x)
     /\ AxisContinuous(vyi, Path(last.k).vyf, last.p.y,
                       getPathPose(last.k, last.step + 1).y)
C4_Witness ==
  /\ Called("getPathPose") /\ ValidConfig /\ StepTime(last.step) = T_ramp
  /\ vxi # Path(last.k).vxf /\ vyi # Path(last.k).vyf /\ vxi # 0

\* C5: heading bound.  The heading returned by getPathPose is at most
\* |index2alpha(k)| in magnitude, has its sign (or is 0), does not shrink in
\* magnitude at the next step, and equals index2alpha(k) as soon as
\* t * W_MAX >= |index2alpha(k)|, also for the direction of angle 0.
C5_HeadingBound ==
  (Called("getPathPose") /\ ValidConfig) =>
     LET dir == Path(last.k).dir
         phi == last.p.phi
     IN  /\ IsFinite(phi)
         /\ Abs(phi) <= Abs(dir)
         /\ phi = 0 \/ Sgn(phi) = Sgn(dir)
         /\ Abs(phi) <= Abs(getPathPose(last.k, last.step + 1).phi)
         /\ FMul(StepTime(last.step), W_MAX) >= Abs(dir) => phi = dir
C5_Witness ==
  /\ Called("getPathPose") /\ ValidConfig
  /\ 0 < Abs(last.p.phi) /\ Abs(last.p.phi) < Abs(Path(last.k).dir)

\* the displacement d of one axis between two consecutive steps, less the
\* two units in the last place the rounding of the two positions can add
Shrunk(d) == IF Abs(d) <= 2 THEN 0 ELSE Abs(d) - 2
StepLengthSq(k, step) ==
  Shrunk(getPathPose(k, step + 1).x - getPathPose(k, step).x) ^ 2
    + Shrunk(getPathPose(k, step + 1).y - getPathPose(k, step).y) ^ 2
SpeedSq(vx, vy) == FMul(vx, PATH_TIME_STEP) ^ 2 + FMul(vy, PATH_TIME_STEP) ^ 2

C7_NewtonBound ==
  (Called("getPathStepForDist") /\ ValidConfig /\ last.dist >= 0
     /\ last.r.branch = "newton" /\ last.r.ok) =>
     /\ 0 <= last.r.t /\ last.r.t <= T_ramp
     /\ FLt(FAbs(FSub(DistAtTime(Path(last.k), last.r.t), last.dist)), NEWTON_TOL)

\* C8: totality of the distance-to-step inversion.  For every dist >= 0
\* getPathStepForDist returns true with a step, and getPathStepCount does
\* not throw.
C8_Totality ==
  /\ (Called("getPathStepForDist") /\ ValidConfig /\ last.dist >= 0) =>
        last.r.ok /\ last.r.out_step >= 0
  /\ (Called("getPathStepCount") /\ ValidConfig) => ~last.r.threw

\* C9: no silent NaN or infinity.  For t in [0, T_ramp] getPathDist returns
\* a finite number, and so is the distance at T_ramp that
\* getPathStepForDist compares dist with.
C9_FiniteDistance ==
  /\ (Called("getPathDist") /\ ValidConfig /\ StepTime(last.step) <= T_ramp) =>
        IsFinite(last.dist)
  /\ (Called("getPathStepForDist") /\ ValidConfig) =>
        IsFinite(DistAtTime(Path(last.k), T_ramp))

\* C10: initialization check.  initialize throws exactly when one of T_ramp,
\* V_MAX, W_MAX, m_alphaValuesCount is not strictly positive, and it leaves
\* every configuration field as it was.
C10_InitializeCheck ==
  Called("initialize") =>
     /\ last.threw <=> (T_ramp <= 0 \/ V_MAX <= 0 \/ W_MAX <= 0 \/ m_alphaValuesCount <= 0)
     /\ last.before = cfgVars
C10_Witness ==
  Called("initialize") /\ last.threw /\ T_ramp > 0 /\ V_MAX > 0 /\ W_MAX = 0


\* the queries of C11, and whether the call in progress returned normally
Queries == {"getPathPose", "getPathDist", "getPathStepForDist", "inverseMap_WS2TP"}
Returned ==
  CASE last.op = "getPathStepForDist" -> ~last.r.threw
    [] last.op = "inverseMap_WS2TP" -> ~last.r.threw
    [] OTHER -> TRUE

\* C11: validated before served.  No query (getPathPose, getPathDist,
\* getPathStepForDist, inverseMap_WS2TP) returns a result while T_ramp,
\* V_MAX, W_MAX or m_alphaValuesCount is not strictly positive.
C11_ValidatedBeforeServed ==
  (last.op \in Queries /\ Returned) => ValidConfig


\* a call of inverseMap_WS2TP or PTG_IsIntoDomain for the origin while the
\* robot is at rest
OriginQuery ==
  /\ last.op \in {"inverseMap_WS2TP", "PTG_IsIntoDomain"}
  /\ last.x = 0 /\ last.y = 0
  /\ vxi = 0 /\ vyi = 0
NoOutput == ~last.r.ok /\ last.r.out_k = Unset /\ last.r.out_d = Unset

\* C12, as claimed: with the current velocity (0,0), inverseMap_WS2TP(0,0)
\* and PTG_IsIntoDomain(0,0) return false normally (no exception) and write
\* no (k, d).
C12_OriginNoSolution ==
  OriginQuery => (~last.r.threw /\ NoOutput)

\* C12, amended: with the current velocity (0,0), inverseMap_WS2TP(0,0) and
\* PTG_IsIntoDomain(0,0) fail the ASSERT_(x!=0 || y!=0) and throw; they
\* return no true result and write no (k, d).
C12_OriginThrows ==
  OriginQuery => (last.r.threw /\ NoOutput)
C12_Witness ==
  OriginQuery /\ ValidConfig /\ last.op = "inverseMap_WS2TP"


\* what the loop of inverseMap_WS2TP finds for each direction, for the
\* target (x, y)
ScanTable(x, y) ==
  [k \in Directions |->
     ScanDirection(k, x, y, eps_distance(x, y), TIME_MISMATCH_TOLERANCE(x, y))]
Accepted(scan) == {k \in DOMAIN scan : scan[k].accept}

\* the result r of inverseMap_WS2TP against the table of its directions
MinimumSelected(r, scan) ==
  IF r.ok
  THEN /\ r.out_k \in Accepted(scan)
       /\ \A j \in Accepted(scan) :
             /\ FLe(scan[r.out_k].dist, scan[j].dist)
             /\ j < r.out_k => FLt(scan[r.out_k].dist, scan[j].dist)
       /\ r.out_d = FDiv(scan[r.out_k].dist, refDistance)
  ELSE /\ Accepted(scan) = {}
       /\ r.out_k = Unset /\ r.out_d = Unset

\* C13: minimum-distance selection.  When inverseMap_WS2TP returns true, the
\* reported k is the lowest-index accepted direction of minimal travelled
\* distance and d is that distance divided by refDistance; when it returns
\* false no direction was accepted and out_k, out_d are not written.
C13_MinimumSelection ==
  (Called("inverseMap_WS2TP") /\ ValidConfig /\ ~last.r.threw) =>
     MinimumSelected(last.r, ScanTable(last.x, last.y))


InRampRange(t) == IsFinite(t) /\ 0 <= t /\ t <= T_ramp

\* one axis whose velocity changes and whose discriminant is not negative:
\* when one of the two roots is in [0, T_ramp], so is the time the solve of
\* that axis yields
KeepsRootBy(p, vi, vf, sqr) ==
  (InRampRange(RampRoot0(vi, vf, sqr)) \/ InRampRange(RampRoot1(vi, vf, sqr))) =>
     InRampRange(RampAxis(p, vi, vf, 0).solve)
KeepsRoot(p, vi, vf) ==
  (Abs(vf - vi) >= eps /\ discr(p, vi, vf) >= 0) =>
     KeepsRootBy(p, vi, vf, FSqrt(discr(p, vi, vf)))

\* C14: per-axis root selection during the ramp.  In inverseMap_WS2TP, for
\* every direction and each axis whose velocity changes and whose
\* discriminant is non-negative, if one of the two roots lies in
\* [0, T_ramp] the axis solve yields a root in [0, T_ramp].
C14_RootSelection ==
  (Called("inverseMap_WS2TP") /\ ValidConfig /\ ~last.r.threw) =>
     \A k \in Directions :
        /\ KeepsRoot(last.x, vxi, Path(k).vxf)
        /\ KeepsRoot(last.y, vyi, Path(k).vyf)


\* the directions accepted with the times of the attempt for t > T_ramp
\* all have a final t_solve of at least T_ramp
CoastInRegime(scan) ==
  \A k \in Accepted(scan) : scan[k].coast => scan[k].t >= T_ramp

\* C15: regime consistency of the fallback solve.  In inverseMap_WS2TP a
\* direction accepted with the times computed by the attempt for
\* t > T_ramp has t_solve >= T_ramp: none is accepted with an after-ramp
\* time in [0, T_ramp).
C15_RegimeConsistency ==
  (Called("inverseMap_WS2TP") /\ ValidConfig /\ ~last.r.threw) =>
     CoastInRegime(ScanTable(last.x, last.y))


\* C16: no step truncation.  Whenever getPathStepForDist returns true for a
\* dist >= 0, out_step is round(t_solved / 0.01) itself, not that integer
\* modulo 2^16: the solved step is at most 65535.
C16_NoStepTruncation ==
  (Called("getPathStepForDist") /\ ValidConfig /\ last.dist >= 0 /\ last.r.ok) =>
     /\ last.r.out_step = RoundedStep(last.r.t)
     /\ RoundedStep(last.r.t) <= 65535

=============================================================================
